---- MODULE Spec2Model ----
(***************************************************************************)
(* A model of the pooled ChaCha20 PRNG of sixafter/prng-chacha: the        *)
(* functional options and Config (config.go), the two constructors (the    *)
(* package init and NewReader), the sharded sync.Pool of prng instances,   *)
(* reader.Read / prng.Read and the asynchronous rekey worker.              *)
(*                                                                         *)
(* Callers and rekey workers are goroutines; every atomic operation, pool  *)
(* operation and cipher operation of the code is one step.  Durations are  *)
(* counted in milliseconds.  The entropy source is the environment: every  *)
(* draw may succeed or fail.                                               *)
(***************************************************************************)
EXTENDS Integers, Sequences, FiniteSets, TLC

\* ------------------------------------------------------------------ bounds

\* Number of goroutines that call Read or Config concurrently.
NumCallers == 2
\* Total number of reader.Read calls in one behaviour.
MaxReads == 2
\* Largest len(dst) a caller passes to Read.
MaxLen == 2
\* runtime.GOMAXPROCS(0) of the machine the program runs on.
NumCPU == 2
\* Longest option list given to NewReader in the configuration specification.
MaxOpts == 2
\* The number of bytes of a key (chacha20.KeySize), scaled down.
KeySize == 3
\* The number of bytes of a nonce (chacha20.NonceSizeX), scaled down.
NonceSizeX == 2

Callers == 1..NumCallers

\* ------------------------------------------------------- config.go: Config

maxRekeyAttempts == 5
rekeyBackoff == 100
maxRekeyBackoff == 2000
maxBytesPerKey == 1073741824
defaultBufferSize == 64
defaultMaxInitRetries == 3

DefaultConfig ==
  [ MaxBytesPerKey    |-> maxBytesPerKey,
    MaxInitRetries    |-> defaultMaxInitRetries,
    MaxRekeyAttempts  |-> maxRekeyAttempts,
    MaxRekeyBackoff   |-> maxRekeyBackoff,
    RekeyBackoff      |-> rekeyBackoff,
    UseZeroBuffer     |-> FALSE,
    EnableKeyRotation |-> FALSE,
    DefaultBufferSize |-> defaultBufferSize,
    Shards            |-> NumCPU ]

\* The functional options: each returns the Config its closure leaves behind.
WithMaxBytesPerKey(n, cfg) == [cfg EXCEPT !.MaxBytesPerKey = n]
WithMaxInitRetries(r, cfg) == [cfg EXCEPT !.MaxInitRetries = r]
WithMaxRekeyAttempts(r, cfg) == [cfg EXCEPT !.MaxRekeyAttempts = r]
\* (a ceiling option that would move the base delay along with the ceiling)
WithMaxRekeyBackoffAndBase(d, cfg) ==
  [cfg EXCEPT !.MaxRekeyBackoff = d, !.RekeyBackoff = d]
WithMaxRekeyBackoff(d, cfg) == [cfg EXCEPT !.MaxRekeyBackoff = d]
WithRekeyBackoff(d, cfg) == [cfg EXCEPT !.RekeyBackoff = d]
WithEnableKeyRotation(enable, cfg) == [cfg EXCEPT !.EnableKeyRotation = enable]
WithZeroBuffer(enable, cfg) == [cfg EXCEPT !.UseZeroBuffer = enable]
WithDefaultBufferSize(n, cfg) == [cfg EXCEPT !.DefaultBufferSize = n]
WithShards(n, cfg) == [cfg EXCEPT !.Shards = n]

\* An Option value: which With* built it, and its argument (a number; a
\* boolean is 0 or 1).
Opt(name, arg) == [name |-> name, arg |-> arg]

ApplyOption(opt, cfg) ==
  CASE opt.name = "MaxBytesPerKey"    -> WithMaxBytesPerKey(opt.arg, cfg)
    [] opt.name = "MaxInitRetries"    -> WithMaxInitRetries(opt.arg, cfg)
    [] opt.name = "MaxRekeyAttempts"  -> WithMaxRekeyAttempts(opt.arg, cfg)
    [] opt.name = "MaxRekeyBackoff"   -> WithMaxRekeyBackoff(opt.arg, cfg)
    [] opt.name = "RekeyBackoff"      -> WithRekeyBackoff(opt.arg, cfg)
    [] opt.name = "EnableKeyRotation" -> WithEnableKeyRotation(opt.arg = 1, cfg)
    [] opt.name = "UseZeroBuffer"     -> WithZeroBuffer(opt.arg = 1, cfg)
    [] opt.name = "DefaultBufferSize" -> WithDefaultBufferSize(opt.arg, cfg)
    [] opt.name = "Shards"            -> WithShards(opt.arg, cfg)

\* The options applied last to first, so that the first one on a field wins.
RECURSIVE ApplyOptionsBackwards(_, _)
ApplyOptionsBackwards(opts, cfg) ==
  IF opts = <<>> THEN cfg
  ELSE ApplyOption(Head(opts), ApplyOptionsBackwards(Tail(opts), cfg))

\* for _, opt := range opts { opt(&cfg) }
RECURSIVE ApplyOptions(_, _)
ApplyOptions(opts, cfg) ==
  IF opts = <<>> THEN cfg
  ELSE ApplyOptions(Tail(opts), ApplyOption(Head(opts), cfg))

\* The shard count taken as the options left it.
FixShardsSkipped(cfg) == cfg

\* if cfg.Shards <= 0 { cfg.Shards = runtime.GOMAXPROCS(0) }
FixShards(cfg) ==
  IF cfg.Shards <= 0 THEN [cfg EXCEPT !.Shards = NumCPU] ELSE cfg

\* The Config NewReader builds from its options (steps 1 of NewReader).
BuildConfig(opts) == FixShards(ApplyOptions(opts, DefaultConfig))

\* -------------------------------------------------------------- the state

VARIABLES
  kind,      \* which constructor ran: "none", "default" (init) or "user" (NewReader)
  rdr,       \* the reader: "none", "building", "ready", "failed" (NewReader
             \* returned an error) or "aborted" (init panicked)
  crashed,   \* the process died of an unrecovered panic
  given,     \* the options NewReader was called with
  cfg,       \* the constructor's cfg variable: <<>> before the call, else <<Config>>
  rconfig,   \* reader.config: "nil" or "cfg" (a pointer to cfg)
  shardCfg,  \* per shard, the closure's copy of cfg (cfg := cfg): <<>> or <<Config>>
  pools,     \* reader.pools: per shard [built, idle]; idle is the set of idle prng ids
  insts,     \* the prng objects ever created, by id
  ciphers,   \* the chacha20.Cipher objects ever created, by id
  ctor,      \* the constructor's loop: [pc, i, r, err, tries]
  pc,        \* per caller, its position in reader.Read / prng.Read
  arg,       \* per caller, len(b) of its current or last Read
  sh,        \* per caller, the shard index it chose
  inst,      \* per caller, the prng it borrowed (0: none)
  stream,    \* per caller, the cipher its atomic load returned (0: none)
  fr,        \* per caller, the pool factory's locals [r, err, tries] during a Get miss
  out,       \* per caller, its Read's keystream: the key and position of the
             \* cipher when it was loaded (lkey, lpos), the key and position
             \* the n bytes were drawn from (key, from), whether the XOR raced
             \* with the cipher being zeroed (torn), whether a byte drawn had
             \* been handed out before (dup)
  ret,       \* per caller, what its last Read returned: [n, err]
  copies,    \* per caller, the Config value its last Config() call returned
  holds,     \* per caller, what that value is stored in: "none", "copy" or "reader"
  nreads,    \* number of Read calls so far
  emitted,   \* the <<key, position>> keystream bytes handed out so far
  nc         \* a newCipher call followed statement by statement: [pc, key,
             \* nonce, err] with its two buffers (0: a zero byte, otherwise a
             \* byte from the entropy source) and the error it returns

vars == << kind, rdr, crashed, given, cfg, rconfig, shardCfg, pools, insts,
           ciphers, ctor, pc, arg, sh, inst, stream, fr, out, ret, copies,
           holds, nreads, emitted, nc >>

\* Everything but the bookkeeping of which calls were made.
progVars == << kind, rdr, crashed, cfg, rconfig, shardCfg, pools, insts,
               ciphers, ctor, pc, sh, inst, stream, fr, out, copies, holds,
               emitted >>

NoWorker == [pc |-> "none", i |-> 0, base |-> 0, old |-> 0, new |-> 0, delay |-> 0]
NoFactory == [r |-> 0, err |-> "nil", tries |-> 0]
NoMessage == [format |-> ""]
NoCtor == [pc |-> "none", i |-> 0, r |-> 0, err |-> "nil", tries |-> 0,
           msg |-> NoMessage]
NoOut == [lkey |-> 0, lpos |-> 0, key |-> 0, from |-> 0, n |-> 0,
          torn |-> FALSE, dup |-> FALSE, post |-> 0, src |-> <<>>, dst |-> <<>>]
Result(n, err) == [n |-> n, err |-> err]
NoCall == [pc |-> "none", key |-> <<>>, nonce |-> <<>>, err |-> "nil"]

Init ==
  /\ kind = "none"
  /\ rdr = "none"
  /\ crashed = FALSE
  /\ given = <<>>
  /\ cfg = <<>>
  /\ rconfig = "nil"
  /\ shardCfg = <<>>
  /\ pools = <<>>
  /\ insts = <<>>
  /\ ciphers = <<>>
  /\ ctor = NoCtor
  /\ pc = [c \in Callers |-> "idle"]
  /\ arg = [c \in Callers |-> 0]
  /\ sh = [c \in Callers |-> 0]
  /\ inst = [c \in Callers |-> 0]
  /\ stream = [c \in Callers |-> 0]
  /\ fr = [c \in Callers |-> NoFactory]
  /\ out = [c \in Callers |-> NoOut]
  /\ ret = [c \in Callers |-> Result(0, "none")]
  /\ copies = [c \in Callers |-> <<>>]
  /\ holds = [c \in Callers |-> "none"]
  /\ nreads = 0
  /\ emitted = {}
  /\ nc = NoCall

\* ---------------------------------------------- newCipher, newPRNG, factory

\* What the entropy source and the cipher constructor do in one newCipher
\* call: "ok", or the step that failed.
CipherOutcomes == {"ok", "key", "nonce"}

\* newCipher's error for an outcome ("nil" on success).
newCipherErr(e) ==
  CASE e = "ok"    -> "nil"
    [] e = "key"   -> "newCipher: failed to read key"
    [] e = "nonce" -> "newCipher: failed to read nonce"
    [] e = "cipher" -> "newCipher: unable to initialize cipher"

\* A fresh cipher: its own key (named by its id), keystream position 0.
FreshCipher(id) == [key |-> id, pos |-> 0]

\* The zero value chacha20.Cipher{}: all-zero key, counter and buffer.
ZeroCipher == [key |-> 0, pos |-> 0]

\* newPRNG's zero buffer: make([]byte, DefaultBufferSize) or make([]byte, 0).
newZeroLen(config) ==
  IF config.UseZeroBuffer /\ config.DefaultBufferSize > 0
    THEN config.DefaultBufferSize ELSE 0

\* newPRNG(&cfg) of shard s on success: the prng holding cipher id cid.
newPRNG(s, cid) ==
  [ shard    |-> s,
    cipher   |-> cid,
    usage    |-> 0,
    rekeying |-> 0,
    zlen     |-> newZeroLen(shardCfg[s][1]),
    zcap     |-> newZeroLen(shardCfg[s][1]),
    zbuf     |-> [j \in 1..newZeroLen(shardCfg[s][1]) |-> 0],
    workers  |-> 0,
    w        |-> NoWorker ]

\* The factory loop with an off-by-one bound: r <= cfg.MaxInitRetries.
FactoryMayTryOneMore(config, r) == r <= config.MaxInitRetries

\* for r := 0; r < cfg.MaxInitRetries; r++ : the loop condition of the
\* pool's New function.
FactoryMayTry(config, r) == r < config.MaxInitRetries

\* One iteration of the factory loop with newCipher outcome e, on the
\* factory locals f: the locals after it.
FactoryTry(f, e) ==
  IF e = "ok"
    THEN [f EXCEPT !.tries = f.tries + 1, !.err = "nil"]
    ELSE [f EXCEPT !.tries = f.tries + 1, !.err = newCipherErr(e), !.r = f.r + 1]

\* The state after a factory iteration that succeeded: a new cipher and a new
\* prng of shard s exist.  NewInst is the new prng's id.
NewInst == Len(insts) + 1
NewCiph == Len(ciphers) + 1
CreatePRNG(s) ==
  /\ ciphers' = Append(ciphers, FreshCipher(NewCiph))
  /\ insts' = Append(insts, newPRNG(s, NewCiph))

\* A Put that offers p to every shard's pool.
PoolPutEverywhere(ps, s, p) ==
  [i \in DOMAIN ps |-> [ps[i] EXCEPT !.idle = @ \cup {p}]]

\* A Put that drops p.
PoolPutNowhere(ps, s, p) == ps

\* pools[s].Put(p)
PoolPut(ps, s, p) == [ps EXCEPT ![s].idle = @ \cup {p}]

\* A Get that hands out p and leaves it in the pool.
PoolTakeKeeps(ps, s, p) == ps

\* pools[s].Get() finding p
PoolTake(ps, s, p) == [ps EXCEPT ![s].idle = @ \ {p}]

\* ------------------------------------------------------ the constructors

\* A pools slice whose pools all exist from the start.
NilPoolsBuilt(n) == [i \in 1..n |-> [built |-> TRUE, idle |-> {}]]

\* make([]*sync.Pool, cfg.Shards): a slice of nil pools.
NilPools(n) == [i \in 1..n |-> [built |-> FALSE, idle |-> {}]]

\* NewReader(opts...): steps 1 and the allocation of the pools slice.
NewReaderCall(opts) ==
  /\ kind = "none"
  /\ kind' = "user"
  /\ rdr' = "building"
  /\ given' = opts
  /\ cfg' = << BuildConfig(opts) >>
  /\ pools' = NilPools(BuildConfig(opts).Shards)
  /\ shardCfg' = [i \in 1..BuildConfig(opts).Shards |-> <<>>]
  /\ ctor' = [NoCtor EXCEPT !.pc = "loop", !.i = 1]
  /\ UNCHANGED << nc, crashed, rconfig, insts, ciphers, pc, arg, sh, inst, stream,
                  fr, out, ret, copies, holds, nreads, emitted >>

\* The package's init(): cfg := DefaultConfig() and the pools slice.
InitCall ==
  /\ kind = "none"
  /\ kind' = "default"
  /\ rdr' = "building"
  /\ cfg' = << DefaultConfig >>
  /\ pools' = NilPools(DefaultConfig.Shards)
  /\ shardCfg' = [i \in 1..DefaultConfig.Shards |-> <<>>]
  /\ ctor' = [NoCtor EXCEPT !.pc = "loop", !.i = 1]
  /\ UNCHANGED << nc, crashed, given, rconfig, insts, ciphers, pc, arg, sh, inst,
                  stream, fr, out, ret, copies, holds, nreads, emitted >>

\* What reader.config is set to by the constructor that ran: NewReader stores
\* &cfg, init leaves the field nil.
ReaderConfigField == IF kind = "user" THEN "cfg" ELSE "nil"

\* Top of "for i := range pools": build shard i's pool and its cfg copy and
\* call Get on the empty pool (which enters New); past the last shard, hand
\* out the reader.
CtorLoop ==
  /\ rdr = "building" /\ ctor.pc = "loop"
  /\ IF ctor.i <= Len(pools)
       THEN /\ pools' = [pools EXCEPT ![ctor.i].built = TRUE]
            /\ shardCfg' = [shardCfg EXCEPT ![ctor.i] = cfg]
            /\ ctor' = [ctor EXCEPT !.pc = "new", !.r = 0, !.err = "nil", !.tries = 0]
            /\ UNCHANGED << rdr, rconfig >>
       ELSE /\ rdr' = "ready"
            /\ rconfig' = ReaderConfigField
            /\ ctor' = [ctor EXCEPT !.pc = "none"]
            /\ UNCHANGED << pools, shardCfg >>
  /\ UNCHANGED << nc, kind, crashed, given, cfg, insts, ciphers, pc, arg, sh, inst,
                  stream, fr, out, ret, copies, holds, nreads, emitted >>

CtorLocals == [r |-> ctor.r, err |-> ctor.err, tries |-> ctor.tries]

\* One iteration of the factory loop during the eager probe of shard ctor.i;
\* on success Get returns the prng, it is Put back, and the loop goes on.
CtorTry(e) ==
  /\ rdr = "building" /\ ctor.pc = "new"
  /\ FactoryMayTry(shardCfg[ctor.i][1], ctor.r)
  /\ LET f == FactoryTry(CtorLocals, e) IN
       IF e = "ok"
         THEN /\ CreatePRNG(ctor.i)
              /\ pools' = PoolPut(pools, ctor.i, NewInst)
              /\ ctor' = [ctor EXCEPT !.pc = "loop", !.i = ctor.i + 1,
                                      !.r = f.r, !.err = f.err, !.tries = f.tries]
         ELSE /\ ctor' = [ctor EXCEPT !.r = f.r, !.err = f.err, !.tries = f.tries]
              /\ UNCHANGED << pools, insts, ciphers >>
  /\ UNCHANGED << nc, kind, rdr, crashed, given, cfg, rconfig, shardCfg, pc, arg,
                  sh, inst, stream, fr, out, ret, copies, holds, nreads, emitted >>

\* init giving up like NewReader does, without panicking.
ProbeExhaustedNoPanic == "failed"

\* The factory loop ran out during the eager probe.  NewReader's factory
\* returns nil, which NewReader turns into its error; init's factory panics.
ProbeExhausted == IF kind = "default" THEN "aborted" ELSE "failed"

\* init's panic value: fmt.Sprintf with the retry count and the factory's err.
InitPanicMessage(config, err) ==
  [ format  |-> "prng pool init failed after %d retries: %v",
    retries |-> config.MaxInitRetries,
    err     |-> err ]

\* NewReader's initErr: fmt.Errorf with the retry count alone; the factory's
\* err is a local of the closure and does not leave it.
NewReaderError(config) ==
  [ format  |-> "prng pool initialization failed after %d retries",
    retries |-> config.MaxInitRetries ]

CtorExhausted ==
  /\ rdr = "building" /\ ctor.pc = "new"
  /\ ~FactoryMayTry(shardCfg[ctor.i][1], ctor.r)
  /\ rdr' = ProbeExhausted
  /\ crashed' = (ProbeExhausted = "aborted")
  /\ ctor' = [ctor EXCEPT !.pc = "none",
                          !.msg = IF kind = "default"
                                    THEN InitPanicMessage(shardCfg[ctor.i][1], ctor.err)
                                    ELSE NewReaderError(shardCfg[ctor.i][1])]
  /\ UNCHANGED << nc, kind, given, cfg, rconfig, shardCfg, pools, insts, ciphers,
                  pc, arg, sh, inst, stream, fr, out, ret, copies, holds,
                  nreads, emitted >>

\* ------------------------------------------------------------ reader.Read

\* The config a prng points to: its shard's copy of cfg.
ConfigOf(p) == shardCfg[insts[p].shard][1]

\* shard := 0; if n > 1 { shard = shardIndex(n) }: the indexes the call may
\* pick (shards are numbered from 1 here, from 0 in the code).
ShardChoices == IF Len(pools) > 1 THEN 1..Len(pools) ELSE {1}

\* reader.Read without its empty-buffer check.
ReadNeverReturnsEarly(n) == FALSE

\* Whether reader.Read returns at once: if len(b) == 0 { return 0, nil }.
ReadReturnsEarly(n) == n = 0

\* reader.Read(b) with len(b) = n, up to and including pools[shard].Get():
\* an empty b returns (0, nil); otherwise a shard is picked and Get either
\* hands out an idle prng or, finding none it can use, enters New.  (sync.Pool
\* may miss although the pool holds idle items.)
ReadCall(c, n) ==
  /\ rdr = "ready" /\ ~crashed
  /\ pc[c] = "idle"
  /\ nreads < MaxReads
  /\ nreads' = nreads + 1
  /\ arg' = [arg EXCEPT ![c] = n]
  /\ IF ReadReturnsEarly(n)
       THEN /\ ret' = [ret EXCEPT ![c] = Result(0, "nil")]
            /\ pc' = [pc EXCEPT ![c] = "done"]
            /\ UNCHANGED << sh, inst, fr, pools >>
       ELSE /\ UNCHANGED ret
            /\ \E s \in ShardChoices :
                 /\ sh' = [sh EXCEPT ![c] = s]
                 /\ \/ \E p \in pools[s].idle :
                         /\ pools' = PoolTake(pools, s, p)
                         /\ inst' = [inst EXCEPT ![c] = p]
                         /\ pc' = [pc EXCEPT ![c] = "got"]
                         /\ UNCHANGED fr
                    \/ /\ pc' = [pc EXCEPT ![c] = "new"]
                       /\ fr' = [fr EXCEPT ![c] = NoFactory]
                       /\ UNCHANGED << pools, inst >>
  /\ UNCHANGED << nc, kind, rdr, crashed, given, cfg, rconfig, shardCfg, insts,
                  ciphers, ctor, stream, out, copies, holds, emitted >>

\* One iteration of the factory loop inside a caller's Get.
ReadNew(c, e) ==
  /\ ~crashed /\ pc[c] = "new"
  /\ FactoryMayTry(shardCfg[sh[c]][1], fr[c].r)
  /\ IF e = "ok"
       THEN /\ CreatePRNG(sh[c])
            /\ inst' = [inst EXCEPT ![c] = NewInst]
            /\ pc' = [pc EXCEPT ![c] = "got"]
            /\ fr' = [fr EXCEPT ![c] = NoFactory]
       ELSE /\ fr' = [fr EXCEPT ![c] = FactoryTry(fr[c], e)]
            /\ UNCHANGED << insts, ciphers, inst, pc >>
  /\ UNCHANGED << nc, kind, rdr, crashed, given, cfg, rconfig, shardCfg, pools,
                  ctor, arg, sh, stream, out, ret, copies, holds, nreads, emitted >>

\* The factory loop ran out inside a caller's Get.  NewReader's factory
\* returns nil and Get().(*prng) panics on the nil interface; init's factory
\* panics itself.  Either way the calling goroutine panics inside Read.
ReadNewExhausted(c) ==
  /\ ~crashed /\ pc[c] = "new"
  /\ ~FactoryMayTry(shardCfg[sh[c]][1], fr[c].r)
  /\ pc' = [pc EXCEPT ![c] = "panic"]
  /\ UNCHANGED << nc, kind, rdr, crashed, given, cfg, rconfig, shardCfg, pools,
                  insts, ciphers, ctor, arg, sh, inst, stream, fr, out, ret,
                  copies, holds, nreads, emitted >>

\* -------------------------------------------------------------- prng.Read

\* stream := p.cipher.Load()
PLoad(c) ==
  /\ ~crashed /\ pc[c] = "got"
  /\ stream' = [stream EXCEPT ![c] = insts[inst[c]].cipher]
  /\ out' = [out EXCEPT ![c] = [NoOut EXCEPT
                !.lkey = ciphers[insts[inst[c]].cipher].key,
                !.lpos = ciphers[insts[inst[c]].cipher].pos]]
  /\ pc' = [pc EXCEPT ![c] = "loaded"]
  /\ UNCHANGED << nc, kind, rdr, crashed, given, cfg, rconfig, shardCfg, pools,
                  insts, ciphers, ctor, arg, sh, inst, fr, ret, copies,
                  holds, nreads, emitted >>

\* The keystream bytes a XORKeyStream of n bytes consumes from cipher k.
KeystreamRange(k, n) == { << k.key, k.pos + j >> : j \in 0..(n - 1) }

\* The cipher after XORKeyStream of n bytes.
Advance(k, n) == [k EXCEPT !.pos = k.pos + n]

\* A Read that, sizing its zero buffer, points the prng at its first cipher.
GrowZeroRebinds(p, n) ==
  [p EXCEPT !.zlen = n, !.zcap = IF @ < n THEN n ELSE @,
            !.zbuf = IF Len(@) < n THEN [j \in 1..n |-> 0] ELSE @, !.cipher = 1]

\* A Read that allocates its zero buffer anew at every call.
GrowZeroAlwaysMakes(p, n) ==
  [p EXCEPT !.zlen = n, !.zcap = n, !.zbuf = [j \in 1..n |-> 0]]

\* The zero buffer after "if cap(p.zero) < n { p.zero = make([]byte, n) }
\* else { p.zero = p.zero[:n] }".
GrowZero(p, n) ==
  IF p.zcap < n
    THEN [p EXCEPT !.zlen = n, !.zcap = n, !.zbuf = [j \in 1..n |-> 0]]
    ELSE [p EXCEPT !.zlen = n]

\* One bit of each byte stands for the byte: XOR acts on every bit alike.
Xor(a, b) == (a + b) % 2

\* The byte of the keystream of key at position pos.
KeystreamByte(key, pos) == (key + pos) % 2

\* What a caller's buffer of n bytes may hold when Read is called.
Zeros(n) == [j \in 1..n |-> 0]
Buffers(n) == { Zeros(n), [j \in 1..n |-> 1] }

\* stream.XORKeyStream(dst, src) on cipher k: what dst holds afterwards.
XORKeyStream(k, src) ==
  [j \in 1..Len(src) |-> Xor(KeystreamByte(k.key, k.pos + j - 1), src[j])]

\* p.zero: the first zlen bytes of the prng's zero buffer.
ZeroSlice(p) == SubSeq(p.zbuf, 1, p.zlen)

\* A Read that XORs in place whatever UseZeroBuffer says.
ReadOutputInPlace(useZero, k, b, zero) == XORKeyStream(k, b)

\* What step 2 of prng.Read leaves in the caller's buffer b: XORKeyStream(b,
\* p.zero) with UseZeroBuffer, where zero is p.zero as just sized;
\* XORKeyStream(b, b) without.
ReadOutput(useZero, k, b, zero) ==
  IF useZero THEN XORKeyStream(k, zero) ELSE XORKeyStream(k, b)

\* Step 2 of prng.Read, up to the keystream being drawn from the cipher the
\* load returned: the zero buffer is sized when UseZeroBuffer is set.
PXorBegin(c) ==
  /\ ~crashed /\ pc[c] = "loaded"
  /\ LET k == ciphers[stream[c]] IN
       /\ ciphers' = [ciphers EXCEPT ![stream[c]] = Advance(k, arg[c])]
       /\ emitted' = emitted \cup KeystreamRange(k, arg[c])
       /\ \E b \in Buffers(arg[c]) :
            out' = [out EXCEPT ![c].key = k.key, ![c].from = k.pos,
                              ![c].n = arg[c],
                              ![c].dup = (KeystreamRange(k, arg[c]) \cap emitted # {}),
                              ![c].src = b,
                              ![c].dst = ReadOutput(ConfigOf(inst[c]).UseZeroBuffer, k, b,
                                                  ZeroSlice(GrowZero(insts[inst[c]], arg[c])))]
  /\ insts' = IF ConfigOf(inst[c]).UseZeroBuffer
                THEN [insts EXCEPT ![inst[c]] = GrowZero(@, arg[c])]
                ELSE insts
  /\ pc' = [pc EXCEPT ![c] = "xoring"]
  /\ UNCHANGED << nc, kind, rdr, crashed, given, cfg, rconfig, shardCfg, pools,
                  ctor, arg, sh, inst, stream, fr, ret, copies, holds, nreads >>

\* A Read that counts usage whatever the configuration says.
TracksUsageAlways(config) == TRUE

\* if p.config.EnableKeyRotation { ... }
TracksUsage(config) == config.EnableKeyRotation

\* XORKeyStream returns; "if p.config.EnableKeyRotation" decides what follows.
PXorEnd(c) ==
  /\ ~crashed /\ pc[c] = "xoring"
  /\ pc' = [pc EXCEPT ![c] =
              IF TracksUsage(ConfigOf(inst[c])) THEN "xored" ELSE "ret"]
  /\ UNCHANGED << nc, kind, rdr, crashed, given, cfg, rconfig, shardCfg, pools,
                  insts, ciphers, ctor, arg, sh, inst, stream, fr, out, ret,
                  copies, holds, nreads, emitted >>

\* atomic.AddUint64(&p.usage, uint64(n)).  out.post is the value the call
\* returns, the post-increment usage, which the code does not keep.
PAddUsage(c) ==
  /\ ~crashed /\ pc[c] = "xored"
  /\ insts' = [insts EXCEPT ![inst[c]].usage = @ + arg[c]]
  /\ out' = [out EXCEPT ![c].post = insts[inst[c]].usage + arg[c]]
  /\ pc' = [pc EXCEPT ![c] = "added"]
  /\ UNCHANGED << nc, kind, rdr, crashed, given, cfg, rconfig, shardCfg, pools,
                  ciphers, ctor, arg, sh, inst, stream, fr, ret, copies,
                  holds, nreads, emitted >>

\* if atomic.LoadUint64(&p.usage) > p.config.MaxBytesPerKey
OverThreshold(p) == insts[p].usage > ConfigOf(p).MaxBytesPerKey

PCheckUsage(c) ==
  /\ ~crashed /\ pc[c] = "added"
  /\ pc' = [pc EXCEPT ![c] = IF OverThreshold(inst[c]) THEN "cas" ELSE "ret"]
  /\ UNCHANGED << nc, kind, rdr, crashed, given, cfg, rconfig, shardCfg, pools,
                  insts, ciphers, ctor, arg, sh, inst, stream, fr, out, ret,
                  copies, holds, nreads, emitted >>

\* The locals of a rekey worker that has just been started.
StartWorker(p) ==
  [NoWorker EXCEPT !.pc = "loop", !.base = ConfigOf(p).RekeyBackoff]

\* A swap that succeeds whatever the flag holds.
CompareAndSwapBlind(p) == TRUE

\* Whether atomic.CompareAndSwapUint32(&p.rekeying, 0, 1) swaps.
CompareAndSwapRekeying(p) == insts[p].rekeying = 0

\* A Read that, finding rekeying set, waits at the swap until the worker has
\* cleared it.
PCasWaits(c) ==
  /\ ~crashed /\ pc[c] = "cas"
  /\ insts' = IF CompareAndSwapRekeying(inst[c])
                THEN [insts EXCEPT ![inst[c]].rekeying = 1,
                                   ![inst[c]].workers = @ + 1,
                                   ![inst[c]].w = StartWorker(inst[c])]
                ELSE insts
  /\ pc' = [pc EXCEPT ![c] = IF CompareAndSwapRekeying(inst[c]) THEN "ret" ELSE "cas"]
  /\ UNCHANGED << nc, kind, rdr, crashed, given, cfg, rconfig, shardCfg, pools,
                  ciphers, ctor, arg, sh, inst, stream, fr, out, ret, copies,
                  holds, nreads, emitted >>

\* if atomic.CompareAndSwapUint32(&p.rekeying, 0, 1) { go p.asyncRekey() }
\* workers counts the goroutines running asyncRekey for the prng; w holds the
\* locals of the one started last.
PCas(c) ==
  /\ ~crashed /\ pc[c] = "cas"
  /\ insts' = IF CompareAndSwapRekeying(inst[c])
                THEN [insts EXCEPT ![inst[c]].rekeying = 1,
                                   ![inst[c]].workers = @ + 1,
                                   ![inst[c]].w = StartWorker(inst[c])]
                ELSE insts
  /\ pc' = [pc EXCEPT ![c] = "ret"]
  /\ UNCHANGED << nc, kind, rdr, crashed, given, cfg, rconfig, shardCfg, pools,
                  ciphers, ctor, arg, sh, inst, stream, fr, out, ret, copies,
                  holds, nreads, emitted >>

\* prng.Read reporting no bytes although it filled the buffer.
PReadResultZero(n) == Result(0, "nil")

\* What prng.Read returns for a buffer of n bytes: return n, nil.
PReadResult(n) == Result(n, "nil")

\* prng.Read returns and reader.Read's deferred Put gives the prng back to
\* the shard it came from; reader.Read returns what prng.Read returned.
ReadReturn(c) ==
  /\ ~crashed /\ pc[c] = "ret"
  /\ pools' = PoolPut(pools, sh[c], inst[c])
  /\ ret' = [ret EXCEPT ![c] = PReadResult(arg[c])]
  /\ pc' = [pc EXCEPT ![c] = "done"]
  /\ UNCHANGED << nc, kind, rdr, crashed, given, cfg, rconfig, shardCfg, insts,
                  ciphers, ctor, arg, sh, inst, stream, fr, out, copies, holds,
                  nreads, emitted >>

\* The caller takes the result; the call's locals are gone.
ReadDone(c) ==
  /\ ~crashed /\ pc[c] = "done"
  /\ pc' = [pc EXCEPT ![c] = "idle"]
  /\ arg' = [arg EXCEPT ![c] = 0]
  /\ sh' = [sh EXCEPT ![c] = 0]
  /\ inst' = [inst EXCEPT ![c] = 0]
  /\ stream' = [stream EXCEPT ![c] = 0]
  /\ fr' = [fr EXCEPT ![c] = NoFactory]
  /\ out' = [out EXCEPT ![c] = NoOut]
  /\ ret' = [ret EXCEPT ![c] = Result(0, "none")]
  /\ UNCHANGED << nc, kind, rdr, crashed, given, cfg, rconfig, shardCfg, pools,
                  insts, ciphers, ctor, copies, holds, nreads, emitted >>

\* -------------------------------------------------------- prng.asyncRekey

Insts == 1..Len(insts)

\* maxBackoff := p.config.MaxRekeyBackoff; if maxBackoff == 0 { maxBackoff =
\* maxRekeyBackoff }
MaxBackoffOf(config) ==
  IF config.MaxRekeyBackoff = 0 THEN maxRekeyBackoff ELSE config.MaxRekeyBackoff

\* for i := 0; i < p.config.MaxRekeyAttempts; i++ : the loop condition.
WorkerMayTry(p) == insts[p].w.i < ConfigOf(p).MaxRekeyAttempts

\* Top of the loop: old = p.cipher.Load().
WLoadOld(p) ==
  /\ ~crashed /\ insts[p].w.pc = "loop"
  /\ WorkerMayTry(p)
  /\ insts' = [insts EXCEPT ![p].w.pc = "try", ![p].w.old = insts[p].cipher]
  /\ UNCHANGED << nc, kind, rdr, crashed, given, cfg, rconfig, shardCfg, pools,
                  ciphers, ctor, pc, arg, sh, inst, stream, fr, out, ret,
                  copies, holds, nreads, emitted >>

\* A worker that ends without the deferred store.
WorkerExitKeepsFlag(p) == [p EXCEPT !.workers = @ - 1, !.w = NoWorker]

\* The deferred atomic.StoreUint32(&p.rekeying, 0), after which the goroutine
\* is gone.
WorkerExit(p) == [p EXCEPT !.rekeying = 0, !.workers = @ - 1, !.w = NoWorker]

\* All attempts failed: the loop ends and the worker exits.
WGiveUp(p) ==
  /\ ~crashed /\ insts[p].w.pc = "loop"
  /\ ~WorkerMayTry(p)
  /\ insts' = [insts EXCEPT ![p] = WorkerExit(@)]
  /\ UNCHANGED << nc, kind, rdr, crashed, given, cfg, rconfig, shardCfg, pools,
                  ciphers, ctor, pc, arg, sh, inst, stream, fr, out, ret,
                  copies, holds, nreads, emitted >>

\* stream, err := newCipher()
WNewCipher(p, e) ==
  /\ ~crashed /\ insts[p].w.pc = "try"
  /\ IF e = "ok"
       THEN /\ ciphers' = Append(ciphers, FreshCipher(NewCiph))
            /\ insts' = [insts EXCEPT ![p].w.pc = "made", ![p].w.new = NewCiph]
       ELSE /\ insts' = [insts EXCEPT ![p].w.pc = "failed"]
            /\ UNCHANGED ciphers
  /\ UNCHANGED << nc, kind, rdr, crashed, given, cfg, rconfig, shardCfg, pools,
                  ctor, pc, arg, sh, inst, stream, fr, out, ret, copies,
                  holds, nreads, emitted >>

\* A worker that goes on to the usage reset without publishing the cipher.
WStoreSkipped(p) ==
  /\ ~crashed /\ insts[p].w.pc = "made"
  /\ insts' = [insts EXCEPT ![p].w.pc = "stored"]
  /\ UNCHANGED << nc, kind, rdr, crashed, given, cfg, rconfig, shardCfg, pools,
                  ciphers, ctor, pc, arg, sh, inst, stream, fr, out, ret,
                  copies, holds, nreads, emitted >>

\* p.cipher.Store(stream)
WStore(p) ==
  /\ ~crashed /\ insts[p].w.pc = "made"
  /\ insts' = [insts EXCEPT ![p].cipher = insts[p].w.new, ![p].w.pc = "stored"]
  /\ UNCHANGED << nc, kind, rdr, crashed, given, cfg, rconfig, shardCfg, pools,
                  ciphers, ctor, pc, arg, sh, inst, stream, fr, out, ret,
                  copies, holds, nreads, emitted >>

\* A worker that publishes the new cipher and leaves usage as it is.
WResetUsageSkipped(p) ==
  /\ ~crashed /\ insts[p].w.pc = "stored"
  /\ insts' = [insts EXCEPT ![p].w.pc = "reset"]
  /\ UNCHANGED << nc, kind, rdr, crashed, given, cfg, rconfig, shardCfg, pools,
                  ciphers, ctor, pc, arg, sh, inst, stream, fr, out, ret,
                  copies, holds, nreads, emitted >>

\* atomic.StoreUint64(&p.usage, 0)
WResetUsage(p) ==
  /\ ~crashed /\ insts[p].w.pc = "stored"
  /\ insts' = [insts EXCEPT ![p].usage = 0, ![p].w.pc = "reset"]
  /\ UNCHANGED << nc, kind, rdr, crashed, given, cfg, rconfig, shardCfg, pools,
                  ciphers, ctor, pc, arg, sh, inst, stream, fr, out, ret,
                  copies, holds, nreads, emitted >>

\* *old = chacha20.Cipher{}.  The store is not synchronised with a Read that
\* loaded old before the new cipher was published: a XORKeyStream in progress
\* on old is torn (its bytes are some mix of the old keystream and what the
\* zeroed state yields).
WZero(p) ==
  /\ ~crashed /\ insts[p].w.pc = "reset"
  /\ ciphers' = [ciphers EXCEPT ![insts[p].w.old] = ZeroCipher]
  /\ out' = [c \in Callers |->
               IF pc[c] = "xoring" /\ stream[c] = insts[p].w.old
                 THEN [out[c] EXCEPT !.torn = TRUE] ELSE out[c]]
  /\ insts' = [insts EXCEPT ![p].w.pc = "zeroed"]
  /\ UNCHANGED << nc, kind, rdr, crashed, given, cfg, rconfig, shardCfg, pools,
                  ctor, pc, arg, sh, inst, stream, fr, ret, copies, holds,
                  nreads, emitted >>

\* return after a successful rekey (the deferred store runs).
WDone(p) ==
  /\ ~crashed /\ insts[p].w.pc = "zeroed"
  /\ insts' = [insts EXCEPT ![p] = WorkerExit(@)]
  /\ UNCHANGED << nc, kind, rdr, crashed, given, cfg, rconfig, shardCfg, pools,
                  ciphers, ctor, pc, arg, sh, inst, stream, fr, out, ret,
                  copies, holds, nreads, emitted >>

\* The values the 8 jitter bytes are drawn from, read as a big-endian uint64.
Rnds == {3, 250}

\* delay := base + time.Duration(rnd % uint64(base)), for base > 0.
JitterDelay(base, rnd) == base + (rnd % base)

\* After a failed newCipher: draw the jitter (the draw may fail too) and
\* sleep.  With base = 0 and a successful draw, rnd % uint64(base) divides by
\* zero: the goroutine panics, its deferred store runs, the process dies.
WBackoff(p, drawOk, rnd) ==
  /\ ~crashed /\ insts[p].w.pc = "failed"
  /\ LET base == insts[p].w.base IN
       IF drawOk /\ base = 0
         THEN /\ insts' = [insts EXCEPT ![p] = WorkerExit(@)]
              /\ crashed' = TRUE
         ELSE /\ insts' = [insts EXCEPT ![p].w.pc = "sleep",
                             ![p].w.delay = IF drawOk THEN JitterDelay(base, rnd)
                                                      ELSE base]
              /\ UNCHANGED crashed
  /\ UNCHANGED << nc, kind, rdr, given, cfg, rconfig, shardCfg, pools, ciphers,
                  ctor, pc, arg, sh, inst, stream, fr, out, ret, copies,
                  holds, nreads, emitted >>

\* A backoff that doubles without a ceiling.
NextBaseUnclamped(base, maxBackoff) == base * 2

\* base *= 2; if base > maxBackoff { base = maxBackoff }
NextBase(base, maxBackoff) ==
  IF base * 2 > maxBackoff THEN maxBackoff ELSE base * 2

\* The sleep ends: the backoff doubles (clamped) and the loop goes on.
WWake(p) ==
  /\ ~crashed /\ insts[p].w.pc = "sleep"
  /\ insts' = [insts EXCEPT
                 ![p].w.pc = "loop",
                 ![p].w.i = @ + 1,
                 ![p].w.delay = 0,
                 ![p].w.base = NextBase(@, MaxBackoffOf(ConfigOf(p)))]
  /\ UNCHANGED << nc, kind, rdr, crashed, given, cfg, rconfig, shardCfg, pools,
                  ciphers, ctor, pc, arg, sh, inst, stream, fr, out, ret,
                  copies, holds, nreads, emitted >>

\* -------------------------------------------------------------- newCipher

\* The variables of the reader, its callers and its workers.
readerVars == << kind, rdr, crashed, given, cfg, rconfig, shardCfg, pools,
                 insts, ciphers, ctor, pc, arg, sh, inst, stream, fr, out,
                 ret, copies, holds, nreads, emitted >>

\* The values of a byte delivered by the entropy source.
EntropyBytes == {1, 2}

\* io.ReadFull(rand.Reader, buf) that obtained k bytes: buf afterwards.  It
\* reports an error when k < len(buf), and the bytes read so far stay in buf.
ReadFull(buf, k, bytes) ==
  [j \in 1..Len(buf) |-> IF j <= k THEN bytes[j] ELSE buf[j]]

\* key := make([]byte, chacha20.KeySize); nonce := make([]byte,
\* chacha20.NonceSizeX)
NewCipherCall ==
  /\ nc.pc = "none"
  /\ nc' = [pc |-> "key", key |-> Zeros(KeySize), nonce |-> Zeros(NonceSizeX),
            err |-> "nil"]
  /\ UNCHANGED readerVars

\* if _, err := io.ReadFull(rand.Reader, key); err != nil { return nil, ... }
NcReadKey(k, bytes) ==
  /\ nc.pc = "key"
  /\ nc' = IF k = KeySize
             THEN [nc EXCEPT !.key = ReadFull(nc.key, k, bytes), !.pc = "nonce"]
             ELSE [nc EXCEPT !.key = ReadFull(nc.key, k, bytes),
                             !.pc = "returned", !.err = newCipherErr("key")]
  /\ UNCHANGED readerVars

\* if _, err := io.ReadFull(rand.Reader, nonce); err != nil { return nil, ... }
NcReadNonce(k, bytes) ==
  /\ nc.pc = "nonce"
  /\ nc' = IF k = NonceSizeX
             THEN [nc EXCEPT !.nonce = ReadFull(nc.nonce, k, bytes),
                             !.pc = "construct"]
             ELSE [nc EXCEPT !.nonce = ReadFull(nc.nonce, k, bytes),
                             !.pc = "returned", !.err = newCipherErr("nonce")]
  /\ UNCHANGED readerVars

\* stream, err := chacha20.NewUnauthenticatedCipher(key, nonce)
NcConstruct(ok) ==
  /\ nc.pc = "construct"
  /\ nc' = [nc EXCEPT !.pc = "wipe",
                      !.err = IF ok THEN "nil" ELSE newCipherErr("cipher")]
  /\ UNCHANGED readerVars

\* for i := range key { key[i] = 0 }; for i := range nonce { nonce[i] = 0 }
NcWipe ==
  /\ nc.pc = "wipe"
  /\ nc' = [nc EXCEPT !.key = Zeros(KeySize), !.nonce = Zeros(NonceSizeX),
                      !.pc = "check"]
  /\ UNCHANGED readerVars

\* if err != nil { return nil, ... }; return stream, nil
NcReturn ==
  /\ nc.pc = "check"
  /\ nc' = [nc EXCEPT !.pc = "returned"]
  /\ UNCHANGED readerVars

\* ---------------------------------------------------------- reader.Config

\* Config() handing out r.config itself instead of a copy.
ConfigReturnsPointer == "reader"

\* Where the Config a caller got from Config() lives: "return *r.config"
\* copies the struct into the caller's own storage.
ConfigReturn == "copy"

\* reader.Config().  On the package-level Reader the config field is nil and
\* the dereference panics.
ConfigCall(c) ==
  /\ rdr = "ready" /\ ~crashed
  /\ pc[c] = "idle"
  /\ IF rconfig = "nil"
       THEN /\ pc' = [pc EXCEPT ![c] = "panic"]
            /\ UNCHANGED << copies, holds >>
       ELSE /\ holds' = [holds EXCEPT ![c] = ConfigReturn]
            /\ copies' = [copies EXCEPT ![c] = cfg]
            /\ UNCHANGED pc
  /\ UNCHANGED << nc, kind, rdr, crashed, given, cfg, rconfig, shardCfg, pools,
                  insts, ciphers, ctor, arg, sh, inst, stream, fr, out, ret,
                  nreads, emitted >>

\* What a caller writes into the Config it was handed.
CallerWrites == { Opt("EnableKeyRotation", 1), Opt("MaxBytesPerKey", 0) }

\* The caller assigns to a field of the Config it holds.
CallerWrite(c, o) ==
  /\ ~crashed /\ holds[c] # "none"
  /\ IF holds[c] = "copy"
       THEN /\ copies' = [copies EXCEPT ![c] = << ApplyOption(o, copies[c][1]) >>]
            /\ UNCHANGED cfg
       ELSE /\ cfg' = << ApplyOption(o, cfg[1]) >>
            /\ UNCHANGED copies
  /\ UNCHANGED << nc, kind, rdr, crashed, given, rconfig, shardCfg, pools, insts,
                  ciphers, ctor, pc, arg, sh, inst, stream, fr, out, ret,
                  holds, nreads, emitted >>

\* ------------------------------------------------------ the specifications

Bools == {FALSE, TRUE}

\* The option lists the concurrent specification constructs readers with.
RotatingOpts ==
  << Opt("Shards", 1), Opt("EnableKeyRotation", 1), Opt("MaxBytesPerKey", 1),
     Opt("MaxRekeyAttempts", 2), Opt("MaxInitRetries", 1) >>

Scenarios ==
  { <<>>,
    RotatingOpts,
    RotatingOpts \o << Opt("UseZeroBuffer", 1), Opt("DefaultBufferSize", 1) >>,
    RotatingOpts \o << Opt("RekeyBackoff", 0), Opt("MaxRekeyAttempts", 1) >> }

Construct ==
  \/ InitCall
  \/ CtorLoop
  \/ \E e \in CipherOutcomes : CtorTry(e)
  \/ CtorExhausted

\* The steps of a Read that has been called.
ReadSteps ==
  \/ \E c \in Callers, e \in CipherOutcomes : ReadNew(c, e)
  \/ \E c \in Callers : ReadNewExhausted(c)
  \/ \E c \in Callers : PLoad(c)
  \/ \E c \in Callers : PXorBegin(c)
  \/ \E c \in Callers : PXorEnd(c)
  \/ \E c \in Callers : PAddUsage(c)
  \/ \E c \in Callers : PCheckUsage(c)
  \/ \E c \in Callers : PCas(c)
  \/ \E c \in Callers : ReadReturn(c)
  \/ \E c \in Callers : ReadDone(c)

Reads ==
  \/ \E c \in Callers, n \in 0..MaxLen : ReadCall(c, n)
  \/ ReadSteps

Rekeys ==
  \/ \E p \in Insts : WLoadOld(p)
  \/ \E p \in Insts : WGiveUp(p)
  \/ \E p \in Insts, e \in CipherOutcomes : WNewCipher(p, e)
  \/ \E p \in Insts : WStore(p)
  \/ \E p \in Insts : WResetUsage(p)
  \/ \E p \in Insts : WZero(p)
  \/ \E p \in Insts : WDone(p)
  \/ \E p \in Insts, ok \in Bools, rnd \in Rnds : WBackoff(p, ok, rnd)
  \/ \E p \in Insts : WWake(p)

\* The goroutines that call Config() and write to what it returned.
Observers == {1}

Configs ==
  \/ \E c \in Observers : ConfigCall(c)
  \/ \E c \in Observers, o \in CallerWrites : CallerWrite(c, o)

Next ==
  \/ \E o \in Scenarios : NewReaderCall(o)
  \/ Construct
  \/ Reads
  \/ Rekeys

\* Readers built by NewReader and by init, read concurrently while rekey
\* workers run.
Spec == Init /\ [][Next]_vars

\* The same, with a goroutine that calls Config() and writes to the result.
NextFrame == Next \/ Configs

SpecFrame == Init /\ [][NextFrame]_vars

\* The arguments the options are given in the configuration specification.
OptArgs(name) ==
  CASE name = "MaxBytesPerKey"    -> {0, 42}
    [] name = "MaxInitRetries"    -> {0, 2}
    [] name = "MaxRekeyAttempts"  -> {0, 8}
    [] name = "MaxRekeyBackoff"   -> {0, 5000}
    [] name = "RekeyBackoff"      -> {0, 1000}
    [] name = "EnableKeyRotation" -> {0, 1}
    [] name = "UseZeroBuffer"     -> {0, 1}
    [] name = "DefaultBufferSize" -> {0, 128}
    [] name = "Shards"            -> {-1, 0, 1, 3}

OptNames ==
  { "MaxBytesPerKey", "MaxInitRetries", "MaxRekeyAttempts", "MaxRekeyBackoff",
    "RekeyBackoff", "EnableKeyRotation", "UseZeroBuffer", "DefaultBufferSize",
    "Shards" }

Options == UNION { { Opt(name, a) : a \in OptArgs(name) } : name \in OptNames }

\* Every option list of at most MaxOpts options.
OptSeqs == UNION { [1..k -> Options] : k \in 0..MaxOpts }

\* Construction under every such option list, and Config().
NextCfg ==
  \/ kind = "none" /\ \E o \in OptSeqs : NewReaderCall(o)
  \/ Construct
  \/ Configs

SpecCfg == Init /\ [][NextCfg]_vars

\* The steps of a rekey worker whose newCipher succeeds.
RekeySucceeds ==
  \/ \E p \in Insts : WLoadOld(p)
  \/ \E p \in Insts : WNewCipher(p, "ok")
  \/ \E p \in Insts : WStore(p)
  \/ \E p \in Insts : WResetUsage(p)
  \/ \E p \in Insts : WZero(p)
  \/ \E p \in Insts : WDone(p)

\* A reader with key rotation on which Read is called once, with an entropy
\* source that works whenever the worker asks.
NextRekey ==
  \/ NewReaderCall(RotatingOpts)
  \/ Construct
  \/ nreads = 0 /\ \E c \in Callers, n \in 0..MaxLen : ReadCall(c, n)
  \/ ReadSteps
  \/ RekeySucceeds

\* The worker is a goroutine of its own: the scheduler runs it whenever it can
\* take a step.
SpecRekey == Init /\ [][NextRekey]_vars /\ WF_vars(RekeySucceeds)

\* The steps of the rekey goroutine of prng p.
WorkerSteps(p) ==
  /\ p \in Insts
  /\ \/ WLoadOld(p)
     \/ WGiveUp(p)
     \/ \E e \in CipherOutcomes : WNewCipher(p, e)
     \/ WStore(p)
     \/ WResetUsage(p)
     \/ WZero(p)
     \/ WDone(p)
     \/ \E ok \in Bools, rnd \in Rnds : WBackoff(p, ok, rnd)
     \/ WWake(p)

\* The most prngs a run makes: one per shard at construction and one per Read
\* whose Get entered the factory.
MaxInsts == NumCPU + MaxReads

\* Readers with key rotation: one whose worker backs off between two
\* attempts, one whose base delay is zero.
WorkerScenarios ==
  { RotatingOpts,
    RotatingOpts \o << Opt("RekeyBackoff", 0), Opt("MaxRekeyAttempts", 1) >> }

NextWorker ==
  \/ \E o \in WorkerScenarios : NewReaderCall(o)
  \/ CtorLoop
  \/ \E e \in CipherOutcomes : CtorTry(e)
  \/ CtorExhausted
  \/ Reads
  \/ Rekeys

\* Those readers, read concurrently, with each rekey goroutine scheduled
\* whenever it can take a step (its sleeps end); the entropy source may fail
\* or work at every call.
SpecWorker ==
  Init /\ [][NextWorker]_vars /\ \A p \in 1..MaxInsts : WF_vars(WorkerSteps(p))

\* Readers with key rotation whose backoff doubles up to its ceiling, whose
\* ceiling is left at zero, and whose base delay is zero.
BackoffOpts(attempts, base, ceiling) ==
  << Opt("Shards", 1), Opt("EnableKeyRotation", 1), Opt("MaxBytesPerKey", 1),
     Opt("MaxInitRetries", 1), Opt("MaxRekeyAttempts", attempts),
     Opt("RekeyBackoff", base), Opt("MaxRekeyBackoff", ceiling) >>

BackoffScenarios ==
  { BackoffOpts(4, 100, 300), BackoffOpts(3, 800, 0), BackoffOpts(2, 0, 300) }

\* Such a reader, on which Read is called once, with an entropy source that
\* may fail or work at every call.
NextBackoff ==
  \/ \E o \in BackoffScenarios : NewReaderCall(o)
  \/ CtorLoop
  \/ \E e \in CipherOutcomes : CtorTry(e)
  \/ CtorExhausted
  \/ nreads = 0 /\ \E c \in Callers, n \in 0..MaxLen : ReadCall(c, n)
  \/ ReadSteps
  \/ Rekeys

SpecBackoff == Init /\ [][NextBackoff]_vars

\* One newCipher call, with an entropy source that delivers any number of
\* bytes to each ReadFull and a cipher constructor that may refuse.
NextCipher ==
  \/ NewCipherCall
  \/ \E k \in 0..KeySize, bytes \in [1..KeySize -> EntropyBytes] : NcReadKey(k, bytes)
  \/ \E k \in 0..NonceSizeX, bytes \in [1..NonceSizeX -> EntropyBytes] :
       NcReadNonce(k, bytes)
  \/ \E ok \in Bools : NcConstruct(ok)
  \/ NcWipe
  \/ NcReturn

SpecCipher == Init /\ [][NextCipher]_vars

\* Readers without key rotation, with and without a zero buffer: of the
\* default size (larger than any Read here), of one byte, and of no bytes.
ZeroBufferScenarios ==
  { << Opt("Shards", 1) >>,
    << Opt("Shards", 1), Opt("UseZeroBuffer", 1) >>,
    << Opt("Shards", 1), Opt("UseZeroBuffer", 1), Opt("DefaultBufferSize", 1) >>,
    << Opt("Shards", 1), Opt("UseZeroBuffer", 1), Opt("DefaultBufferSize", 0) >> }

\* The steps a Read takes on such a reader (usage is not counted).
NextZeroBuffer ==
  \/ \E o \in ZeroBufferScenarios : NewReaderCall(o)
  \/ CtorLoop
  \/ \E e \in CipherOutcomes : CtorTry(e)
  \/ CtorExhausted
  \/ \E c \in Callers, n \in 0..MaxLen : ReadCall(c, n)
  \/ \E c \in Callers, e \in CipherOutcomes : ReadNew(c, e)
  \/ \E c \in Callers : ReadNewExhausted(c)
  \/ \E c \in Callers : PLoad(c)
  \/ \E c \in Callers : PXorBegin(c)
  \/ \E c \in Callers : PXorEnd(c)
  \/ \E c \in Callers : ReadReturn(c)
  \/ \E c \in Callers : ReadDone(c)

SpecZeroBuffer == Init /\ [][NextZeroBuffer]_vars

\* Configurations at the edges of the fields' ranges: a zero MaxBytesPerKey
\* with a RekeyBackoff above MaxRekeyBackoff, and a zero MaxRekeyAttempts.
EdgeScenarios ==
  { << Opt("Shards", 1), Opt("EnableKeyRotation", 1), Opt("MaxInitRetries", 1),
       Opt("MaxBytesPerKey", 0), Opt("MaxRekeyAttempts", 2),
       Opt("RekeyBackoff", 1000), Opt("MaxRekeyBackoff", 500) >>,
    << Opt("Shards", 1), Opt("EnableKeyRotation", 1), Opt("MaxInitRetries", 1),
       Opt("MaxBytesPerKey", 1), Opt("MaxRekeyAttempts", 0) >> }

NextEdge ==
  \/ \E o \in EdgeScenarios : NewReaderCall(o)
  \/ Construct
  \/ Reads
  \/ Rekeys

\* Readers built with those configurations, read concurrently.
SpecEdge == Init /\ [][NextEdge]_vars

\* ------------------------------------------------------------ the claims

\* A caller that holds a borrowed prng: between Get and the deferred Put.
Holding(c) == pc[c] \in {"got", "loaded", "xoring", "xored", "added", "cas", "ret"}

\* A caller whose XORKeyStream has started.
Drew(c) == pc[c] \in {"xoring", "xored", "added", "cas", "ret", "done"} /\ arg[c] > 0

Ciphers == 1..Len(ciphers)

\* C1: a Read of a non-empty buffer that got a prng returns (len(dst), nil),
\* whatever the state of that prng's rekey worker.
C1_ReadReturnsLen ==
  \A c \in Callers :
    (pc[c] = "done" /\ arg[c] > 0) => ret[c] = Result(arg[c], "nil")

\* C1's case: a Read returned (MaxLen, nil) from a prng whose worker had rotated
\* the cipher and zeroed the old one.
C1_Witness ==
  \E c \in Callers :
    /\ pc[c] = "done" /\ arg[c] = MaxLen /\ ret[c] = Result(MaxLen, "nil")
    /\ stream[c] = insts[inst[c]].cipher
    /\ \E k \in Ciphers : k < stream[c] /\ ciphers[k] = ZeroCipher

\* C2: a Read of an empty buffer returns (0, nil) and changes nothing else: no
\* shard is picked, no pool, prng, cipher or config is touched.
C2_EmptyReadNoEffect ==
  [][ \A c \in Callers :
        (pc[c] = "idle" /\ nreads' # nreads /\ arg'[c] = 0 /\ pc'[c] # "idle")
          => /\ pc'[c] = "done"
             /\ ret'[c] = Result(0, "nil")
             /\ UNCHANGED << kind, rdr, crashed, cfg, rconfig, shardCfg, pools,
                             insts, ciphers, ctor, sh, inst, stream, fr, out,
                             copies, holds, emitted >> ]_vars

\* C2's case: an empty Read returned while another caller was in the middle of
\* its XORKeyStream.
C2_Witness ==
  \E c, d \in Callers :
    /\ pc[c] = "done" /\ arg[c] = 0 /\ ret[c] = Result(0, "nil")
    /\ pc[d] = "xoring"

\* C3: no two callers hold the same prng, and a prng a caller holds is idle in
\* no pool.
C3_ExclusiveBorrow ==
  /\ \A c, d \in Callers : (c # d /\ Holding(c) /\ Holding(d)) => inst[c] # inst[d]
  /\ \A c \in Callers : Holding(c) =>
       \A s \in 1..Len(pools) : inst[c] \notin pools[s].idle

\* C3's case: two callers hold prngs of the same shard at once.
C3_Witness ==
  \E c, d \in Callers :
    c # d /\ Holding(c) /\ Holding(d) /\ sh[c] = sh[d] /\ pc[c] = "xoring"
          /\ pc[d] = "xoring"

\* C4: every Read draws exactly the n keystream bytes that follow the position
\* its cipher had when it was loaded, under that cipher's key, and no keystream
\* byte is handed out twice.
C4_KeystreamContiguous ==
  \A c \in Callers :
    Drew(c) => /\ out[c].key = out[c].lkey
               /\ out[c].from = out[c].lpos
               /\ out[c].n = arg[c]
               /\ ~out[c].torn
               /\ ~out[c].dup

\* C5: the cipher a Read loaded is not zeroed before the Read's XORKeyStream
\* has ended, and the bytes come whole from a keyed cipher.
C5_NoZeroedCipherObserved ==
  \A c \in Callers :
    /\ pc[c] \in {"loaded", "xoring"} => ciphers[stream[c]].key # 0
    /\ Drew(c) => (out[c].key # 0 /\ ~out[c].torn)

\* C6: on a reader NewReader returned, no Read returns an error or panics
\* because the cipher could not be made.
C6_ReadNeverAborts ==
  kind = "user" =>
    \A c \in Callers : pc[c] # "panic" /\ ret[c].err \in {"none", "nil"}

C8_DefaultReaderOrAbort ==
  kind = "default" =>
    /\ rdr # "failed"
    /\ rdr = "aborted" => (crashed /\ ctor.tries = defaultMaxInitRetries)
    /\ (ctor.pc = "none" /\ rdr # "ready") => (rdr = "aborted" /\ crashed)
    /\ rdr = "ready" =>
         \A s \in 1..Len(pools) :
           pools[s].built /\ \E p \in Insts : insts[p].shard = s

\* C8's case: init panicked on its second shard.
C8_Witness ==
  kind = "default" /\ rdr = "aborted" /\ crashed /\ ctor.i = 2

\* The argument of the last option of opts that sets field name, else dflt.
RECURSIVE LastArg(_, _, _)
LastArg(opts, name, dflt) ==
  IF opts = <<>> THEN dflt
  ELSE IF opts[Len(opts)].name = name THEN opts[Len(opts)].arg
  ELSE LastArg(SubSeq(opts, 1, Len(opts) - 1), name, dflt)

\* DefaultConfig with the options applied in order, field by field.
OptionImage(opts) ==
  [ MaxBytesPerKey    |-> LastArg(opts, "MaxBytesPerKey", maxBytesPerKey),
    MaxInitRetries    |-> LastArg(opts, "MaxInitRetries", defaultMaxInitRetries),
    MaxRekeyAttempts  |-> LastArg(opts, "MaxRekeyAttempts", maxRekeyAttempts),
    MaxRekeyBackoff   |-> LastArg(opts, "MaxRekeyBackoff", maxRekeyBackoff),
    RekeyBackoff      |-> LastArg(opts, "RekeyBackoff", rekeyBackoff),
    UseZeroBuffer     |-> LastArg(opts, "UseZeroBuffer", 0) = 1,
    EnableKeyRotation |-> LastArg(opts, "EnableKeyRotation", 0) = 1,
    DefaultBufferSize |-> LastArg(opts, "DefaultBufferSize", defaultBufferSize),
    Shards            |-> LastArg(opts, "Shards", NumCPU) ]

\* What Config() returns: *r.config.
ReaderConfig == cfg[1]

\* C9 as stated: Config() of a reader NewReader returned is the option image
\* of the defaults.
C9_ConfigIsOptionImage ==
  (kind = "user" /\ rdr = "ready") => ReaderConfig = OptionImage(given)

\* C9 amended: Config() is the option image of the defaults, except that a
\* Shards <= 0 left by the options is replaced by GOMAXPROCS.
C9_ConfigIsImageWithShardsFixed ==
  (kind = "user" /\ rdr = "ready") =>
    ReaderConfig =
      IF OptionImage(given).Shards <= 0
        THEN [OptionImage(given) EXCEPT !.Shards = NumCPU]
        ELSE OptionImage(given)

\* C9's case: a reader built from two options on the same field with different
\* arguments, the first of which is not the default.
C9_Witness ==
  /\ kind = "user" /\ rdr = "ready" /\ Len(given) = 2
  /\ given[1].name = given[2].name /\ given[1].arg # given[2].arg
  /\ given[1].name = "MaxBytesPerKey"
  /\ ReaderConfig.MaxBytesPerKey = given[2].arg

\* C10: once the reader is built, no step changes its Config or the prngs'
\* Configs: not a Read, not a worker, not Config(), not a write to a Config
\* that Config() returned.
C10_ConfigImmutable ==
  [][ rdr = "ready" => UNCHANGED << cfg, shardCfg, rconfig >> ]_vars

\* C10's case: a caller changed the Config it got from Config(), a Read has
\* returned since, and the reader's Config is as built.
C10_Witness ==
  /\ rdr = "ready" /\ kind = "user"
  /\ \E c \in Observers, d \in Callers :
       /\ holds[c] = "copy" /\ copies[c] # cfg
       /\ d # c /\ pc[d] = "done" /\ arg[d] > 0
  /\ cfg[1] = BuildConfig(given)

\* The prngs and ciphers there can be after one Read of a one-shard reader.
OneReadInsts == 1..(1 + 1)
OneReadCiphers == 1..(1 + 1 + 1)

\* Prng p's worker has just been started, k being p's active cipher: the
\* cipher the Read that crossed the threshold drew from.
JustSpawned(p, k) ==
  /\ p <= Len(insts)
  /\ insts[p].rekeying = 1 /\ insts[p].w.pc = "loop" /\ insts[p].w.i = 0
  /\ insts[p].cipher = k

\* Prng p's active cipher is no longer k and its usage reads 0.
Rotated(p, k) ==
  p <= Len(insts) /\ insts[p].cipher # k /\ insts[p].usage = 0

\* C11: with key rotation on and newCipher succeeding, after the one Read that
\* took usage over MaxBytesPerKey the prng eventually has an active cipher
\* other than the one read from, and usage 0.
C11_RotationHappens ==
  \A p \in OneReadInsts, k \in OneReadCiphers : JustSpawned(p, k) ~> Rotated(p, k)

\* C11's case: the one Read has returned, its prng's worker has rotated the
\* cipher and exited, usage is 0 and the new cipher is untouched.
C11_Witness ==
  /\ nreads = 1 /\ \A c \in Callers : pc[c] = "idle"
  /\ \E p \in Insts :
       /\ insts[p].rekeying = 0 /\ insts[p].usage = 0
       /\ ciphers[insts[p].cipher].pos = 0
       /\ \E k \in Ciphers : k < insts[p].cipher /\ ciphers[k] = ZeroCipher

\* C12: every prng has at most one rekey worker started and not yet exited,
\* rekeying is 1 exactly while that worker exists, and a Read that crosses the
\* threshold while a worker is in flight starts no other.
C12_SingleFlight ==
  \A p \in Insts :
    /\ insts[p].workers \in {0, 1}
    /\ insts[p].rekeying = insts[p].workers
    /\ (insts[p].workers = 1) <=> (insts[p].w.pc # "none")

\* C12's case: a second Read has taken usage further over the threshold and
\* is at its compare-and-swap while the prng's worker sleeps between attempts.
C12_Witness ==
  \E c \in Callers :
    /\ pc[c] = "cas"
    /\ insts[inst[c]].usage = 2 * MaxLen
    /\ insts[inst[c]].rekeying = 1 /\ insts[inst[c]].workers = 1
    /\ insts[inst[c]].w.pc = "sleep"

\* Cipher k was replaced by a worker that has exited: no prng has it as its
\* active cipher and no worker in flight holds it as old or new.
Replaced(k) ==
  \A p \in Insts :
    /\ insts[p].cipher # k
    /\ insts[p].w.pc # "none" => (insts[p].w.old # k /\ insts[p].w.new # k)

\* C13: once a worker that published a new cipher has exited (rekeying is 0
\* again), the state of the cipher it replaced is all zero.
C13_OldCipherZeroed ==
  \A k \in Ciphers : Replaced(k) => ciphers[k] = ZeroCipher

\* C14: with key rotation off, every prng keeps usage 0 and rekeying 0, has no
\* worker, and no step replaces the cipher installed when it was made.
C14_RotationOff ==
  /\ [](\A p \in Insts :
          ~ConfigOf(p).EnableKeyRotation =>
            /\ insts[p].usage = 0 /\ insts[p].rekeying = 0
            /\ insts[p].workers = 0 /\ insts[p].w = NoWorker)
  /\ [][\A p \in Insts :
          ~ConfigOf(p).EnableKeyRotation => insts'[p].cipher = insts[p].cipher]_vars

\* C14's case: every Read the bounds allow has returned from one prng of a
\* reader without rotation, whose first cipher has served them all.
C14_Witness ==
  /\ nreads = MaxReads /\ \A c \in Callers : pc[c] = "idle"
  /\ \E p \in Insts :
       /\ ~ConfigOf(p).EnableKeyRotation
       /\ ciphers[insts[p].cipher].pos = MaxReads * MaxLen
       /\ insts[p].usage = 0 /\ insts[p].rekeying = 0

\* A step of prng p's worker on the failure path: newCipher failing, the
\* jitter and sleep, the wake-up, and giving up when the attempts are spent.
FailureStep(p) ==
  /\ insts'[p].w # insts[p].w
  /\ \/ insts[p].w.pc \in {"failed", "sleep"}
     \/ insts[p].w.pc = "try" /\ insts'[p].w.pc = "failed"
     \/ insts[p].w.pc = "loop" /\ insts'[p].w.pc = "none"

\* C15: a failing rekey is not fatal: no step of a worker's failure path
\* changes the prng's cipher reference, its usage or any cipher's state, and
\* none ends the process, so that Reads go on from the unchanged cipher.
C15_RekeyFailureHarmless ==
  [][\A p \in Insts :
       FailureStep(p) =>
         /\ insts'[p].cipher = insts[p].cipher
         /\ insts'[p].usage = insts[p].usage
         /\ ciphers' = ciphers
         /\ ~crashed']_vars

\* The values the fields' documentation in config.go gives a zero field.
EffectiveMaxBytesPerKey(config) ==
  IF config.MaxBytesPerKey = 0 THEN maxBytesPerKey ELSE config.MaxBytesPerKey

EffectiveRekeyBackoff(config) ==
  IF config.RekeyBackoff = 0 THEN rekeyBackoff ELSE config.RekeyBackoff

EffectiveMaxInitRetries(config) ==
  IF config.MaxInitRetries = 0 THEN defaultMaxInitRetries ELSE config.MaxInitRetries

EffectiveMaxRekeyAttempts(config) ==
  IF config.MaxRekeyAttempts = 0 THEN maxRekeyAttempts ELSE config.MaxRekeyAttempts

\* C16: a zero MaxBytesPerKey stands for 1 GiB: a Read goes on to start a
\* rekey worker only when usage exceeds the effective threshold.
C16_ZeroMaxBytesIsDefault ==
  [][\A c \in Callers :
       (pc[c] = "added" /\ pc'[c] = "cas") =>
         insts[inst[c]].usage > EffectiveMaxBytesPerKey(ConfigOf(inst[c]))]_vars

\* C17: a zero RekeyBackoff stands for 100 ms: a failed attempt sleeps for at
\* least that base and the jitter computation does not fault.
C17_ZeroBackoffIsDefault ==
  \A p \in Insts :
    /\ ConfigOf(p).RekeyBackoff = 0 => ~crashed
    /\ insts[p].w.pc = "sleep" =>
         insts[p].w.delay >= EffectiveRekeyBackoff(ConfigOf(p))

\* C18: a zero MaxInitRetries stands for 3: NewReader reports a failed probe
\* only after that many newCipher attempts have failed.
C18_ZeroInitRetriesIsDefault ==
  (kind = "user" /\ rdr = "failed") =>
    ctor.tries >= EffectiveMaxInitRetries(cfg[1])

\* C19: a zero MaxRekeyAttempts stands for 5: a worker gives up only after
\* that many newCipher attempts have failed.
C19_ZeroRekeyAttemptsIsDefault ==
  [][\A p \in Insts :
       (insts[p].w.pc = "loop" /\ insts'[p].w.pc = "none") =>
         insts[p].w.i >= EffectiveMaxRekeyAttempts(ConfigOf(p))]_vars

\* C20: the base backoff a worker sleeps on after a failed attempt is at most
\* the maximum backoff in effect.
C20_BackoffClamped ==
  \A p \in Insts :
    insts[p].w.pc = "sleep" => insts[p].w.base <= MaxBackoffOf(ConfigOf(p))

\* The cipher state caller c's XORKeyStream started from.
DrawnFrom(c) == [key |-> out[c].key, pos |-> out[c].from]

\* C21 as stated: with the cipher in the same state and the same caller
\* buffer, a Read returns the same bytes with UseZeroBuffer as without.
C21_ZeroBufferSameBytes ==
  \A c \in Callers :
    Drew(c) => /\ out[c].dst = ReadOutput(TRUE, DrawnFrom(c), out[c].src, Zeros(arg[c]))
               /\ out[c].dst = ReadOutput(FALSE, DrawnFrom(c), out[c].src, Zeros(arg[c]))

\* C21 amended: the two modes return the same bytes when the caller's buffer
\* holds zeros; in general the bytes without UseZeroBuffer are the bytes with
\* it XORed with what the buffer held, and the Read returns its mode's bytes.
C21_ZeroBufferSameOnZeros ==
  \A c \in Callers :
    Drew(c) =>
      LET k == DrawnFrom(c)
          b == out[c].src
          z == ReadOutput(TRUE, k, b, Zeros(arg[c]))
          i == ReadOutput(FALSE, k, b, Zeros(arg[c]))
      IN /\ out[c].dst = IF ConfigOf(inst[c]).UseZeroBuffer THEN z ELSE i
         /\ Len(z) = arg[c] /\ Len(i) = arg[c]
         /\ \A j \in 1..arg[c] : i[j] = Xor(z[j], b[j])
         /\ (b = Zeros(arg[c])) => z = i

\* C21's case: a prng with UseZeroBuffer has served a Read of MaxLen bytes
\* into a buffer that held zeros, and the bytes are those the in-place XOR
\* would have given.
C21_Witness ==
  \E c, d \in Callers :
    /\ pc[c] = "done" /\ arg[c] = MaxLen /\ out[c].src = Zeros(MaxLen)
    /\ ConfigOf(inst[c]).UseZeroBuffer
    /\ out[c].dst = ReadOutput(FALSE, DrawnFrom(c), out[c].src, Zeros(arg[c]))
    /\ pc[d] = "idle" /\ nreads = 1

\* C22: a reader that NewReader returned has Config().Shards >= 1 and owns
\* that many pools, each of them built; and when the options left a shard
\* count <= 0, Config().Shards is the logical CPU count.
C22_ShardsPositive ==
  (kind = "user" /\ rdr = "ready") =>
    /\ ReaderConfig.Shards >= 1
    /\ Len(pools) = ReaderConfig.Shards
    /\ \A i \in 1..Len(pools) : pools[i].built
    /\ (OptionImage(given).Shards <= 0) => (ReaderConfig.Shards = NumCPU)
    /\ (OptionImage(given).Shards > 0) =>
         (ReaderConfig.Shards = OptionImage(given).Shards)

\* C22's case: NewReader returned a reader for options whose last word on
\* the shard count was negative, and the reader owns NumCPU pools.
C22_Witness ==
  /\ kind = "user" /\ rdr = "ready"
  /\ Len(given) > 0 /\ given[Len(given)] = Opt("Shards", -1)
  /\ Len(pools) = NumCPU /\ ReaderConfig.Shards = NumCPU

\* The fields of a Config, and the value an option carries for its field.
Fields == DOMAIN DefaultConfig
FieldValue(o) ==
  IF o.name \in {"EnableKeyRotation", "UseZeroBuffer"} THEN o.arg = 1 ELSE o.arg

\* Option o applied to Config c sets field o.name to o's argument and leaves
\* the other fields as they were.
OverwritesOneField(o, c) ==
  LET d == ApplyOption(o, c) IN
    /\ DOMAIN d = Fields
    /\ d[o.name] = FieldValue(o)
    /\ \A f \in Fields \ {o.name} : d[f] = c[f]

\* C23: each option overwrites exactly one Config field and leaves the
\* others unchanged: at every step of NewReader's option loop, and for every
\* option applied to the Config the loop ended with.
C23_OptionOverwritesOneField ==
  (kind = "user") =>
    /\ \A k \in 1..Len(given) :
         OverwritesOneField(given[k],
                            ApplyOptions(SubSeq(given, 1, k - 1), DefaultConfig))
    /\ \A o \in Options :
         OverwritesOneField(o, ApplyOptions(given, DefaultConfig))

\* C23's case: NewReader returned a reader for two options on different
\* fields, and its Config differs from the defaults in those two fields only.
C23_Witness ==
  /\ kind = "user" /\ rdr = "ready"
  /\ given = << Opt("MaxRekeyBackoff", 5000), Opt("UseZeroBuffer", 1) >>
  /\ ReaderConfig.MaxRekeyBackoff = 5000 /\ ReaderConfig.UseZeroBuffer
  /\ \A f \in Fields \ {"MaxRekeyBackoff", "UseZeroBuffer"} :
       ReaderConfig[f] = DefaultConfig[f]

\* C24: when NewReader fails because a shard's eager probe ran out of
\* attempts, the error it returns names the prng pool and carries the error
\* of the last newCipher call.
C24_ErrorCarriesLastCause ==
  (kind = "user" /\ rdr = "failed" /\ ctor.tries > 0) =>
    /\ ctor.msg.format # ""
    /\ "err" \in DOMAIN ctor.msg
    /\ ctor.msg.err = ctor.err

\* The shards of the reader, and a step of caller c inside a non-empty Read
\* (from the call to the deferred Put, the factory's iterations included).
Shards == 1..Len(pools)
ReadStepOf(c) == pc'[c] # pc[c] /\ pc[c] # "done" /\ arg'[c] > 0

\* C25: a non-empty Read touches one shard.  Every step of the call leaves
\* the other shards' pools as they were; the shard index is chosen once, lies
\* among the reader's shards, and is the first shard when there is only one;
\* the prng the call works on is of that shard, whether the pool handed it out
\* or the shard's factory made it.
C25_ReadTouchesOneShard ==
  [][ \A c \in Callers :
        ReadStepOf(c) =>
          /\ sh'[c] \in Shards
          /\ (Len(pools) = 1) => (sh'[c] = 1)
          /\ (pc[c] # "idle") => (sh'[c] = sh[c])
          /\ \A s \in Shards \ {sh'[c]} : pools'[s] = pools[s]
          /\ \A p \in (1..Len(insts')) \ (1..Len(insts)) :
               insts'[p].shard = sh'[c]
          /\ (pc'[c] \in {"got", "ret", "done"}) =>
               (insts'[inst'[c]].shard = sh'[c]) ]_vars

\* C25's case: on a reader of two shards, two Reads have returned, one on
\* each shard, and each shard's pool holds the prng its Read used and not the
\* other one.
C25_Witness ==
  /\ Len(pools) = 2
  /\ \E c, d \in Callers :
       /\ pc[c] = "done" /\ arg[c] > 0 /\ sh[c] = 1
       /\ pc[d] = "done" /\ arg[d] > 0 /\ sh[d] = 2
       /\ inst[c] \in pools[1].idle /\ inst[c] \notin pools[2].idle
       /\ inst[d] \in pools[2].idle /\ inst[d] \notin pools[1].idle

\* No Read is in progress: every caller is outside Read, has its result, or
\* was aborted inside Get.
Quiescent == \A c \in Callers : pc[c] \in {"idle", "done", "panic"}

\* Every prng is idle in the pool of the shard it was made for, and in no
\* other pool.
AllIdleAtHome ==
  \A p \in Insts : \A s \in Shards : (p \in pools[s].idle) <=> (s = insts[p].shard)

\* C26: a non-empty Read borrows once and returns once, to the shard it
\* borrowed from.  The borrow takes one prng out of the pools (or has the
\* factory make one); the call keeps that prng, which is in no pool, until
\* its only exit, where the deferred Put adds it to its shard's pool and
\* changes nothing else; a call aborted inside Get holds nothing.  Hence when
\* no Read is in progress every prng is idle in its own shard.
C26_BorrowedIsReturned ==
  [][ /\ Quiescent' => AllIdleAtHome'
      /\ \A c \in Callers :
           /\ (pc[c] \in {"idle", "new"} /\ pc'[c] = "got") =>
                /\ inst'[c] \in 1..Len(insts')
                /\ \A s \in Shards :
                     pools'[s].idle = pools[s].idle \ {inst'[c]}
           /\ (Holding(c) /\ pc'[c] # "done") =>
                /\ Holding(c)' /\ inst'[c] = inst[c] /\ sh'[c] = sh[c]
                /\ \A s \in Shards : inst'[c] \notin pools'[s].idle
           /\ (pc[c] # "done" /\ pc'[c] = "done" /\ arg'[c] > 0) =>
                /\ pc[c] = "ret"
                /\ pools' = [pools EXCEPT ![sh[c]].idle = @ \cup {inst[c]}]
                /\ pools' # pools
                /\ insts[inst[c]].shard = sh[c]
           /\ (pc[c] # "panic" /\ pc'[c] = "panic") =>
                (pc[c] = "new" /\ inst[c] = 0 /\ pools' = pools) ]_vars

\* C26's case: two Reads ran at the same time on one shard, one of them on a
\* prng the factory made for it; both have returned and both prngs are idle
\* in that shard.
C26_Witness ==
  /\ Quiescent /\ nreads = MaxReads
  /\ \E c, d \in Callers :
       /\ pc[c] = "done" /\ pc[d] = "done" /\ arg[c] > 0 /\ arg[d] > 0
       /\ inst[c] # inst[d] /\ sh[c] = sh[d]
       /\ {inst[c], inst[d]} \subseteq pools[sh[c]].idle

\* The pcs of a worker whose newCipher succeeded.
Succeeded == {"made", "stored", "reset", "zeroed"}

\* C27: a spawned rekey worker terminates.  It calls newCipher at most
\* MaxRekeyAttempts times (a call is about to be made at "try", after w.i
\* failed ones); after the first success it makes no further attempt; while
\* it runs rekeying is 1, and the step in which it ends, by success or by
\* exhaustion, leaves rekeying at 0; and rekeying = 1 leads to rekeying = 0
\* (or to the end of the process).
C27_WorkerTerminates ==
  /\ [][ \A p \in 1..Len(insts') :
           LET w == insts'[p].w IN
             /\ (w.pc = "try") => (w.i + 1 <= ConfigOf(p)'.MaxRekeyAttempts)
             /\ (w.pc # "none") => (insts'[p].rekeying = 1)
             /\ (p \in Insts /\ insts[p].w.pc \in Succeeded) =>
                  (w.pc \in Succeeded \cup {"none"})
             /\ (p \in Insts /\ insts[p].w.pc # "none" /\ w.pc = "none") =>
                  /\ insts'[p].rekeying = 0
                  /\ insts[p].w.pc \in {"loop", "zeroed", "failed"} ]_vars
  /\ \A p \in 1..MaxInsts :
       (p \in Insts /\ insts[p].rekeying = 1)
         ~> (crashed \/ (p \in Insts /\ insts[p].rekeying = 0))

\* C27's case: a worker whose only attempts all failed has ended and left
\* rekeying at 0 with the cipher it started with, and the process runs on.
C27_Witness ==
  /\ ~crashed
  /\ \E p \in Insts :
       /\ insts[p].rekeying = 0 /\ insts[p].w.pc = "none"
       /\ insts[p].usage > ConfigOf(p).MaxBytesPerKey
       /\ ConfigOf(p).EnableKeyRotation
       /\ \A k \in Ciphers : ciphers[k] # ZeroCipher
       /\ Len(ciphers) = Len(insts)

\* Where the worker of prng p stands in the order publish, reset, zero,
\* clear: from the Store on the prng's cipher is the new one; at the reset
\* usage is 0 for whoever reads it next and the old cipher is still intact;
\* the old cipher's key is wiped only after both; rekeying stays 1
\* throughout; the cipher a prng publishes is never a wiped one.
RekeyOrder(p) ==
  LET w == insts[p].w IN
    /\ (w.pc \in {"stored", "reset", "zeroed"}) =>
         (insts[p].cipher = w.new /\ w.new # w.old /\ insts[p].rekeying = 1)
    /\ (w.pc \in {"made", "stored", "reset"}) => (ciphers[w.old].key # ZeroCipher.key)
    /\ (w.pc = "made") => (insts[p].cipher = w.old)
    /\ (w.pc = "zeroed") => (ciphers[w.old].key = ZeroCipher.key)
    /\ ciphers[insts[p].cipher].key # ZeroCipher.key

\* C28: a successful rekey publishes the new cipher, then resets usage, then
\* zeroes the old cipher, then clears rekeying.  In every state the worker's
\* position agrees with that order; the reset step sets usage to 0 with the
\* new cipher already published; and a Load by a reader on a prng whose
\* worker has reset usage yields the new cipher, never the old one.
C28_PublishBeforeReset ==
  [][ /\ \A p \in 1..Len(insts') : RekeyOrder(p)'
      /\ \A p \in Insts :
           (insts[p].w.pc = "stored" /\ insts'[p].w.pc = "reset") =>
             (insts'[p].usage = 0 /\ insts[p].cipher = insts[p].w.new
                /\ insts'[p].cipher = insts[p].cipher /\ ciphers' = ciphers)
      /\ \A c \in Callers :
           (pc[c] = "got" /\ pc'[c] = "loaded"
              /\ insts[inst[c]].w.pc \in {"reset", "zeroed"}) =>
             (stream'[c] = insts[inst[c]].w.new
                /\ stream'[c] # insts[inst[c]].w.old) ]_vars

\* C28's case: a worker has published the new cipher and reset usage and has
\* not yet zeroed the old one, and a reader that borrowed the prng has loaded
\* the new cipher.
C28_Witness ==
  \E p \in Insts, c \in Callers :
    /\ insts[p].w.pc = "reset" /\ insts[p].usage = 0
    /\ insts[p].cipher = insts[p].w.new
    /\ ciphers[insts[p].w.old].key # ZeroCipher.key
    /\ inst[c] = p /\ pc[c] = "loaded" /\ stream[c] = insts[p].w.new

\* A step that starts a rekey worker on prng p.
Spawns(p) == insts'[p].workers = insts[p].workers + 1

\* The threshold test of caller c's Read, taken on the post-increment usage.
PostOverThreshold(c) == out[c].post > ConfigOf(inst[c]).MaxBytesPerKey

\* C29: with rotation enabled a Read starts a worker exactly when its
\* post-increment usage exceeds MaxBytesPerKey (not at MaxBytesPerKey itself)
\* and rekeying is 0 for its CAS to swap.  So a Read passes the CAS by only
\* if its post-increment usage is not above the threshold or rekeying is 1;
\* the CAS starts a worker exactly when rekeying was 0; a CAS that fails
\* changes nothing; and a worker is started by no other step.
C29_SpawnIffOverAndSwapped ==
  [][ /\ \A c \in Callers :
           /\ (pc[c] = "added" /\ pc'[c] # "added") =>
                /\ (pc'[c] = "cas") => PostOverThreshold(c)
                /\ (pc'[c] # "cas") =>
                     ~(PostOverThreshold(c) /\ insts[inst[c]].rekeying = 0)
                /\ insts' = insts
           /\ (pc[c] = "cas" /\ pc'[c] # "cas") =>
                /\ PostOverThreshold(c)
                /\ Spawns(inst[c]) <=> (insts[inst[c]].rekeying = 0)
                /\ ~Spawns(inst[c]) => (insts' = insts /\ ciphers' = ciphers)
      /\ \A p \in Insts :
           Spawns(p) => \E c \in Callers : pc[c] = "cas" /\ pc'[c] = "ret" /\ inst[c] = p
    ]_vars

\* No Read is in progress on prng p, and no rekey worker of p is running.
AtRest(p) ==
  /\ \A c \in Callers : Holding(c) => inst[c] # p
  /\ insts[p].w.pc = "none" /\ insts[p].rekeying = 0

\* C30: with rotation enabled, usage is the number of keystream bytes drawn
\* from the prng's active cipher: whenever no Read is in progress on the prng
\* (and no worker is between its steps), usage equals the active cipher's
\* keystream position.
C30_UsageIsActivePosition ==
  \A p \in Insts :
    (ConfigOf(p).EnableKeyRotation /\ AtRest(p)) =>
      insts[p].usage = ciphers[insts[p].cipher].pos

Min(a, b) == IF a <= b THEN a ELSE b

\* The ceiling of the backoff: MaxRekeyBackoff, 2 s when it is left at zero.
EffectiveMaxRekeyBackoff(config) ==
  IF config.MaxRekeyBackoff = 0 THEN maxRekeyBackoff ELSE config.MaxRekeyBackoff

\* base_i of the schedule: base_0 = RekeyBackoff, base_{i+1} = min(2 base_i,
\* ceiling).
RECURSIVE BaseAt(_, _)
BaseAt(config, i) ==
  IF i = 0 THEN config.RekeyBackoff
  ELSE Min(2 * BaseAt(config, i - 1), EffectiveMaxRekeyBackoff(config))

C32_OnlyWorkerStoresCipher ==
  [][ \A p \in Insts :
        /\ (insts'[p].cipher # insts[p].cipher) =>
             /\ insts[p].w.pc = "made" /\ insts'[p].w.pc = "stored"
             /\ insts'[p].cipher = insts[p].w.new
             /\ pc' = pc /\ pools' = pools
        /\ (pc' # pc \/ pools' # pools) => (insts'[p].cipher = insts[p].cipher) ]_vars

\* C32's case: the first prng's worker has replaced its cipher and exited,
\* and a Read in zero-buffer mode that loaded the new cipher has returned the
\* prng with that cipher still in place.
C32_Witness ==
  \E c \in Callers :
    /\ pc[c] = "done" /\ arg[c] > 0 /\ inst[c] = 1
    /\ ConfigOf(1).UseZeroBuffer
    /\ insts[1].cipher # 1 /\ stream[c] = insts[1].cipher
    /\ insts[1].w.pc = "none" /\ 1 \in pools[sh[c]].idle

\* No rekey worker of prng p is running.
NoWorkerOn(p) == insts[p].w.pc = "none" /\ insts[p].rekeying = 0

\* The step in which the worker of p exits with all its attempts failed.
ExitsWithoutSuccess(p) ==
  insts[p].w.pc = "loop" /\ insts'[p].w.pc = "none"

\* C33: a rekey that keeps failing shows as usage above MaxBytesPerKey and is
\* retried.  The step in which a worker gives up leaves usage above
\* MaxBytesPerKey and rekeying at 0; and a Read on a prng with rotation
\* enabled, no worker and usage above MaxBytesPerKey is left alone by every
\* other goroutine, goes on from its usage count to the CAS, and starts a
\* new worker there.
C33_FailedRekeyIsRetried ==
  [][ /\ \A p \in Insts :
           ExitsWithoutSuccess(p) =>
             /\ insts'[p].rekeying = 0
             /\ insts'[p].usage > ConfigOf(p).MaxBytesPerKey
             /\ insts'[p].cipher = insts[p].cipher
      /\ \A c \in Callers :
           ( /\ Holding(c) /\ pc[c] # "ret"
             /\ ConfigOf(inst[c]).EnableKeyRotation
             /\ NoWorkerOn(inst[c])
             /\ insts[inst[c]].usage > ConfigOf(inst[c]).MaxBytesPerKey ) =>
             /\ insts'[inst[c]].usage >= insts[inst[c]].usage
             /\ (pc'[c] = pc[c]) => (insts'[inst[c]] = insts[inst[c]])
             /\ (pc[c] = "added" /\ pc'[c] # pc[c]) => (pc'[c] = "cas")
             /\ (pc[c] = "cas" /\ pc'[c] # pc[c]) =>
                  (Spawns(inst[c]) /\ insts'[inst[c]].rekeying = 1)
             /\ (pc'[c] = "ret") => (pc[c] = "cas") ]_vars

\* Shard s was built and probed: its pool exists and holds, idle, the one
\* prng its factory made.
Probed(s) ==
  /\ pools[s].built /\ pools[s].idle = {s}
  /\ s \in Insts /\ insts[s].shard = s

\* Shard s was never reached: no pool, no prng.
Untouched(s) == ~pools[s].built /\ pools[s].idle = {}

\* C34: when NewReader hands out a reader, every one of its Config().Shards
\* shards was built and probed once, so each pool holds exactly one idle
\* prng, made by its own factory, and there are no other prngs.  When
\* NewReader fails, it fails at the probe of some shard i: the shards before
\* i were probed, shard i's pool exists and is empty, and no shard after i
\* was built or probed.
C34_EagerProbe ==
  (kind = "user") =>
    /\ (rdr = "ready") =>
         /\ Len(pools) = ReaderConfig.Shards
         /\ Len(insts) = Len(pools)
         /\ \A s \in Shards : Probed(s)
    /\ (rdr = "failed") =>
         /\ ctor.i \in Shards
         /\ Len(insts) = ctor.i - 1
         /\ \A s \in Shards :
              /\ (s < ctor.i) => Probed(s)
              /\ (s = ctor.i) => (pools[s].built /\ pools[s].idle = {})
              /\ (s > ctor.i) => Untouched(s)

\* C34's case: NewReader for three shards failed at the probe of the second
\* one, after three failed attempts; the first shard holds its prng and the
\* third was never built.
C34_Witness ==
  /\ kind = "user" /\ rdr = "failed"
  /\ Len(pools) = 3 /\ ctor.i = 2 /\ ctor.tries = defaultMaxInitRetries
  /\ Probed(1) /\ Untouched(3)

\* C35: newCipher has zeroed its key buffer and its nonce buffer on every
\* return, with or without an error: no byte of either buffer is a byte that
\* came from the entropy source.
C35_BuffersZeroedOnReturn ==
  (nc.pc = "returned") =>
    (nc.key = Zeros(KeySize) /\ nc.nonce = Zeros(NonceSizeX))

\* C36: every reader the package hands out, the package-level Reader and a
\* NewReader result alike, holds a Config, and Config() on it returns that
\* Config (the defaults for the package-level Reader) and does not fault.
C36_ReaderHoldsConfig ==
  (rdr = "ready") =>
    /\ rconfig # "nil"
    /\ \A c \in Observers :
         /\ pc[c] # "panic"
         /\ (holds[c] # "none" /\ kind = "default") => (copies[c] = << DefaultConfig >>)

\* The steps of caller c's Read once it holds a prng.
CallerStep(c) ==
  \/ PLoad(c)
  \/ PXorBegin(c)
  \/ PXorEnd(c)
  \/ PAddUsage(c)
  \/ PCheckUsage(c)
  \/ PCas(c)
  \/ ReadReturn(c)

\* How far a Read has come.
Rank(at) ==
  CASE at = "got" -> 1 [] at = "loaded" -> 2 [] at = "xoring" -> 3
    [] at = "xored" -> 4 [] at = "added" -> 5 [] at = "cas" -> 6
    [] at = "ret" -> 7 [] at = "done" -> 8 [] OTHER -> 0

\* C37: Read never waits for a rekey worker.  In every state of a running
\* process, a caller that holds a prng can take its next step, whatever the
\* prng's worker is doing (not started, attempting, sleeping, done); each of
\* its steps takes it further towards the return, and the last one puts the
\* prng back; so the Read ends after at most seven steps of its own.
C37_ReadNeverWaits ==
  /\ [](\A c \in Callers :
          (Holding(c) /\ ~crashed) => ENABLED << CallerStep(c) >>_vars)
  /\ [][ \A c \in Callers :
           (Holding(c) /\ pc'[c] # pc[c]) =>
             /\ Rank(pc'[c]) > Rank(pc[c])
             /\ (pc'[c] = "done") => (inst[c] \in pools'[sh[c]].idle) ]_vars

\* C37's case: a Read started a worker and returned; a second Read on the
\* same prng then ran from borrow to return while that worker, the cipher
\* unchanged, has got no further than its first backoff sleep.
C37_Witness ==
  \E c, d \in Callers :
    /\ c # d /\ pc[c] = "done" /\ pc[d] = "done" /\ arg[c] > 0 /\ arg[d] > 0
    /\ inst[c] = inst[d]
    /\ insts[inst[c]].w.pc = "sleep" /\ insts[inst[c]].w.i = 0
    /\ insts[inst[c]].rekeying = 1 /\ Len(ciphers) = 1
    /\ inst[c] \in pools[sh[c]].idle

\* C38: the zero buffer.  Its bytes are all zero in every state and a Read
\* with UseZeroBuffer XORs against zeros; its capacity never decreases; when
\* a Read of n bytes with UseZeroBuffer has sized it, and for as long as that
\* Read holds the prng and when it returns, its length is n; a new prng's buffer has length
\* DefaultBufferSize when UseZeroBuffer is set and DefaultBufferSize > 0, and
\* length 0 otherwise, where it stays when UseZeroBuffer is not set.
C38_ZeroBufferStaysZero ==
  /\ [](/\ \A p \in Insts :
            /\ insts[p].zbuf = Zeros(insts[p].zcap)
            /\ insts[p].zlen <= insts[p].zcap
            /\ ZeroSlice(insts[p]) = Zeros(insts[p].zlen)
            /\ ~ConfigOf(p).UseZeroBuffer =>
                 (insts[p].zlen = 0 /\ insts[p].zcap = 0)
        /\ \A c \in Callers :
             (pc[c] \in {"xoring", "xored", "added", "cas", "ret"}
                /\ ConfigOf(inst[c]).UseZeroBuffer) =>
               /\ insts[inst[c]].zlen = arg[c]
               /\ out[c].dst = XORKeyStream(DrawnFrom(c), Zeros(arg[c])))
  /\ [][\A c \in Callers :
          (pc[c] = "ret" /\ pc'[c] = "done" /\ ConfigOf(inst[c]).UseZeroBuffer) =>
            insts'[inst[c]].zlen = arg[c]]_vars
  /\ [][\A p \in 1..Len(insts') :
          /\ (p \in Insts) => (insts'[p].zcap >= insts[p].zcap)
          /\ (p \notin Insts) =>
               LET made == shardCfg'[insts'[p].shard][1] IN
                 /\ insts'[p].zlen =
                      IF made.UseZeroBuffer /\ made.DefaultBufferSize > 0
                        THEN made.DefaultBufferSize ELSE 0
                 /\ insts'[p].zcap = insts'[p].zlen]_vars

\* C38's case: a prng made with a zero buffer of one byte has served a Read
\* of two bytes, which grew the buffer, and then a Read of one byte, which
\* kept the capacity of two and set the length to one.
C38_Witness ==
  \E c \in Callers :
    /\ pc[c] = "ret" /\ arg[c] = 1 /\ nreads = 2
    /\ ConfigOf(inst[c]).UseZeroBuffer /\ ConfigOf(inst[c]).DefaultBufferSize = 1
    /\ insts[inst[c]].zcap = 2 /\ insts[inst[c]].zlen = 1
    /\ insts[inst[c]].zbuf = Zeros(2)

====
